---- MODULE Spec2Model ----
(***************************************************************************)
(* Model of the cookbook GraphQL layer: the ingredient query resolvers of  *)
(* cookbook/ingredients/schema.py and cookbook/schema.py, and the          *)
(* upsert_ingredient / delete_ingredient mutations, over a store of        *)
(* Category and Ingredient rows.                                           *)
(*                                                                         *)
(* Python strings are tuples of characters; None is a distinguished value  *)
(* per type (NoneStr, NoneInt).  A queryset is the sequence of its rows in *)
(* the order the store returns them; an unordered queryset is returned in  *)
(* storage (insertion) order, and order_by keeps that order among ties.    *)
(*                                                                         *)
(* The store hands out ingredient ids 1, 2, ... and never reuses one;      *)
(* category ids follow the order of creation.  Ids given by callers are    *)
(* well-formed numeric ids.  Each ORM call commits on its own: no          *)
(* transaction wraps a mutation.  Store failures other than DoesNotExist   *)
(* are not modelled.  The result of the request being served is held in    *)
(* `result` until it is delivered to the caller.                           *)
(***************************************************************************)
EXTENDS Integers, Sequences, FiniteSets

\* ---------------------------------------------------------------- bounds
MaxId == 2          \* ingredient ids the store hands out: 1..MaxId
MaxFirst == 2       \* `first` arguments tried: 0..MaxFirst
MaxOffset == 3      \* `offset` arguments tried: 0..MaxOffset

\* ---------------------------------------------------------------- values
NoneInt == -1
NoneStr == <<"None">>

Strs == { <<>>, <<"a">>, <<"a", "b">> }
NameInputs == Strs \cup {NoneStr}
NotesInputs == { NoneStr, <<"a">> }
CategoryNameInputs == { NoneStr, <<>>, <<"a">>, <<"b">> }
IdInputs == (1..MaxId) \cup {NoneInt}

\* Python truthiness of an optional string / of an optional ID
TruthyStr(s) == s # NoneStr /\ s # <<>>
TruthyId(i) == i # NoneInt

Lower(c) == CASE c = "A" -> "a" [] c = "B" -> "b" [] OTHER -> c
ToLower(s) == [i \in 1..Len(s) |-> Lower(s[i])]
CharRank(c) == CASE c = "A" -> 1 [] c = "B" -> 2 [] c = "a" -> 3 [] c = "b" -> 4 [] OTHER -> 5

\* database lookups name__iexact / name__icontains (a NULL column matches nothing)
IExact(col, v) == col # NoneStr /\ ToLower(col) = ToLower(v)
IContains(col, v) ==
    /\ col # NoneStr
    /\ \E i \in 0..(Len(col) - Len(v)) :
          SubSeq(ToLower(col), i + 1, i + Len(v)) = ToLower(v)

\* ordering of two strings as ORDER BY compares them
RECURSIVE StrLess(_, _)
StrLess(s, t) ==
    IF t = <<>> THEN FALSE
    ELSE IF s = <<>> THEN TRUE
    ELSE IF s[1] # t[1] THEN CharRank(s[1]) < CharRank(t[1])
    ELSE StrLess(Tail(s), Tail(t))

\* ---------------------------------------------------------------- state
VARIABLES ingredients, categories, nextIngredientId, result
vars == <<ingredients, categories, nextIngredientId, result>>

Idle == [op |-> "idle"]

Init ==
    /\ ingredients = <<>>
    /\ categories = <<>>
    /\ nextIngredientId = 1
    /\ result = Idle

\* ---------------------------------------------------------------- querysets
\* queryset[lo:hi] for 0 <= lo
SliceSeq(qs, lo, hi) ==
    LET h == IF hi < Len(qs) THEN hi ELSE Len(qs)
    IN IF lo >= h THEN <<>> ELSE SubSeq(qs, lo + 1, h)

FilterKeys == {"name__iexact", "name__icontains", "id"}
NoneOfKey(k) == IF k = "id" THEN NoneInt ELSE NoneStr

Lookup(row, k, v) ==
    CASE k = "name__iexact" -> IExact(row.name, v)
      [] k = "name__icontains" -> IContains(row.name, v)
      [] k = "id" -> row.id = v
      [] k = "category_id" -> row.category = v
      [] k = "notes__icontains" -> IContains(row.notes, v)

apply_filters(queryset, filter_data) ==
    IF DOMAIN filter_data # {}
    THEN LET Keep(row) == \A k \in DOMAIN filter_data : Lookup(row, k, filter_data[k])
         IN SelectSeq(queryset, Keep)
    ELSE queryset

KeyLess(a, b, field) ==
    IF field = "name" THEN StrLess(a.name, b.name) ELSE a.id < b.id
KeyEq(a, b, field) ==
    IF field = "name" THEN a.name = b.name ELSE a.id = b.id

order_by(queryset, field, desc) ==
    LET n == Len(queryset)
        Before(j, i) ==
            \/ IF desc THEN KeyLess(queryset[i], queryset[j], field)
                       ELSE KeyLess(queryset[j], queryset[i], field)
            \/ KeyEq(queryset[j], queryset[i], field) /\ j < i
        Pos(i) == 1 + Cardinality({j \in 1..n : Before(j, i)})
    IN [p \in 1..n |-> queryset[CHOOSE i \in 1..n : Pos(i) = p]]

NoOrder == [field |-> "none", direction |-> "none"]

apply_ordering(queryset, order_input) ==
    IF order_input # NoOrder
    THEN order_by(queryset, order_input.field, order_input.direction = "DESC")
    ELSE queryset

\* the slice stops at `first` instead of `offset + first`
apply_pagination_StopAtFirst(queryset, first, offset) ==
    LET off == IF offset = NoneInt \/ offset = 0 THEN 0 ELSE offset
    IN IF first # NoneInt
       THEN SliceSeq(queryset, off, first)
       ELSE SliceSeq(queryset, off, Len(queryset))

apply_pagination(queryset, first, offset) ==
    LET off == IF offset = NoneInt \/ offset = 0 THEN 0 ELSE offset
    IN IF first # NoneInt
       THEN SliceSeq(queryset, off, off + first)
       ELSE SliceSeq(queryset, off, Len(queryset))

\* ---------------------------------------------------------------- queries
\* `where` omitted (None) is the empty mapping
NoWhere == <<>>

\* cookbook/ingredients/schema.py
resolve_ingredients(rows, where, first, offset, order) ==
    LET queryset == rows
        filter_data == [k \in {key \in DOMAIN where : where[key] # NoneOfKey(key)} |-> where[k]]
        filtered_qs == apply_filters(queryset, filter_data)
        ordered_qs == apply_ordering(filtered_qs, order)
        total_count == Len(ordered_qs)
        paginated_qs == apply_pagination(ordered_qs, first, offset)
    IN [items |-> paginated_qs, total_count |-> total_count]

\* cookbook/schema.py
apply_filters_and_pagination(queryset, filters, pagination) ==
    LET filtered == IF DOMAIN filters # {}
                    THEN LET Keep(row) == \A k \in DOMAIN filters : Lookup(row, k, filters[k])
                         IN SelectSeq(queryset, Keep)
                    ELSE queryset
        offset == pagination.offset
        first == pagination.first
    IN IF first # NoneInt
       THEN SliceSeq(filtered, offset, offset + first)
       ELSE SliceSeq(filtered, offset, Len(filtered))

RootFilters(where) ==
    LET keys == IF DOMAIN where = {} THEN {}
                ELSE (IF TruthyStr(where.name_contains) THEN {"name__icontains"} ELSE {})
                     \cup (IF where.category_id # NoneInt /\ where.category_id # 0
                           THEN {"category_id"} ELSE {})
                     \cup (IF TruthyStr(where.notes_contains) THEN {"notes__icontains"} ELSE {})
    IN [k \in keys |-> CASE k = "name__icontains" -> where.name_contains
                         [] k = "category_id" -> where.category_id
                         [] k = "notes__icontains" -> where.notes_contains]

root_resolve_ingredients(rows, where, first, offset) ==
    LET filters == RootFilters(where)
        pagination == [first |-> first,
                       offset |-> IF offset = NoneInt THEN 0 ELSE offset]
        filtered_ingredients == apply_filters_and_pagination(rows, filters, pagination)
        total_count == Len(filtered_ingredients)
    IN [items |-> filtered_ingredients, total_count |-> total_count]

\* ---------------------------------------------------------------- mutations
IdsOf(rows) == {rows[i].id : i \in 1..Len(rows)}

\* the category is built but never saved
get_or_create_Unsaved(cats, name) ==
    IF \E i \in 1..Len(cats) : cats[i].name = name
    THEN [categories |-> cats,
          id |-> cats[CHOOSE i \in 1..Len(cats) : cats[i].name = name].id]
    ELSE [categories |-> cats, id |-> Len(cats) + 1]

\* a category is created without looking for one of that name
get_or_create_AlwaysCreate(cats, name) ==
    [categories |-> Append(cats, [id |-> Len(cats) + 1, name |-> name]),
     id |-> Len(cats) + 1]

\* Category.objects.get_or_create(name=...): the row of that name, created
\* with the next id when there is none
get_or_create(cats, name) ==
    IF \E i \in 1..Len(cats) : cats[i].name = name
    THEN [categories |-> cats,
          id |-> cats[CHOOSE i \in 1..Len(cats) : cats[i].name = name].id]
    ELSE [categories |-> Append(cats, [id |-> Len(cats) + 1, name |-> name]),
          id |-> Len(cats) + 1]

NoneOfField == [name |-> NoneStr, notes |-> NoneStr, category |-> NoneInt]

update_fields(instance, fields) ==
    [f \in DOMAIN instance |->
        IF f \in DOMAIN fields /\ fields[f] # NoneOfField[f]
        THEN fields[f] ELSE instance[f]]

\* only the name is required of a create
RequiredFieldsError_NameOnly(ingredient_id, name, category_name) ==
    IF ~TruthyId(ingredient_id) /\ ~TruthyStr(name) THEN "ValidationError" ELSE ""

\* the checks made when no id is supplied
RequiredFieldsError(ingredient_id, name, category_name) ==
    IF ~TruthyId(ingredient_id)
    THEN IF ~TruthyStr(name) THEN "ValidationError"
         ELSE IF ~TruthyStr(category_name) THEN "ValidationError"
         ELSE ""
    ELSE ""

\* "Ensure the category exists"
EnsureCategory(cats, category_name) ==
    IF TruthyStr(category_name)
    THEN get_or_create(cats, category_name)
    ELSE [categories |-> cats, id |-> NoneInt]

\* Ingredient.objects.filter(name=name).exclude(id=ingredient_id).exists()
DuplicateNameExists(rows, name, ingredient_id) ==
    /\ TruthyStr(name)
    /\ \E i \in 1..Len(rows) : rows[i].name = name /\ rows[i].id # ingredient_id

UpsertMutate(rows, cats, nextId, input) ==
    LET ingredient_id == input.id
        name == input.name
        notes == input.notes
        category_name == input.category_name
        Out(err, rows1, cats1, nextId1, ing) ==
            [error |-> err, ingredients |-> rows1, categories |-> cats1,
             nextIngredientId |-> nextId1, ingredient |-> ing]
    IN IF RequiredFieldsError(ingredient_id, name, category_name) # ""
       THEN Out(RequiredFieldsError(ingredient_id, name, category_name),
                rows, cats, nextId, NoneInt)
       ELSE
       LET ensured == EnsureCategory(cats, category_name)
           category == ensured.id
           cats1 == ensured.categories
       IN IF DuplicateNameExists(rows, name, ingredient_id)
          THEN Out("DuplicateName", rows, cats1, nextId, NoneInt)
          ELSE IF TruthyId(ingredient_id)
          THEN IF ingredient_id \in IdsOf(rows)
               THEN LET i == CHOOSE j \in 1..Len(rows) : rows[j].id = ingredient_id
                        ingredient == update_fields(rows[i],
                                        [name |-> name, notes |-> notes,
                                         category |-> category])
                    IN Out("", [rows EXCEPT ![i] = ingredient], cats1, nextId,
                           ingredient.id)
               ELSE Out("NotFound", rows, cats1, nextId, NoneInt)
          ELSE Out("", Append(rows, [id |-> nextId, name |-> name, notes |-> notes,
                                     category |-> category]),
                   cats1, nextId + 1, nextId)

\* the delete takes the rows of later ids with it
DeleteMutate_FromId(rows, id) ==
    IF id \in IdsOf(rows)
    THEN LET Keep(row) == row.id < id
         IN [error |-> "", success |-> TRUE, ingredients |-> SelectSeq(rows, Keep)]
    ELSE [error |-> "NotFound", success |-> FALSE, ingredients |-> rows]

DeleteMutate(rows, id) ==
    IF id \in IdsOf(rows)
    THEN LET Keep(row) == row.id # id
         IN [error |-> "", success |-> TRUE, ingredients |-> SelectSeq(rows, Keep)]
    ELSE [error |-> "NotFound", success |-> FALSE, ingredients |-> rows]

\* ---------------------------------------------------------------- inputs
UpsertInputs ==
    [id : IdInputs, name : NameInputs, notes : NotesInputs,
     category_name : CategoryNameInputs]

WhereInputs ==
    {NoWhere} \cup
    [name__iexact : {NoneStr, <<"A">>}, name__icontains : {NoneStr, <<"B">>},
     id : {NoneInt, 1}]

RootWhereInputs ==
    {NoWhere} \cup
    [name_contains : {NoneStr, <<>>, <<"B">>}, category_id : {NoneInt, 0, 1},
     notes_contains : {NoneStr, <<"A">>}]

OrderInputs ==
    {NoOrder} \cup [field : {"name", "id"}, direction : {"ASC", "DESC"}]

FirstInputs == (0..MaxFirst) \cup {NoneInt}
OffsetInputs == (0..MaxOffset) \cup {NoneInt}

\* ---------------------------------------------------------------- actions
UpsertIngredient(input) ==
    /\ LET r == UpsertMutate(ingredients, categories, nextIngredientId, input)
       IN /\ r.nextIngredientId <= MaxId + 1
          /\ ingredients' = r.ingredients
          /\ categories' = r.categories
          /\ nextIngredientId' = r.nextIngredientId
          /\ result' = [op |-> "upsert_ingredient", input |-> input,
                        error |-> r.error, ingredient |-> r.ingredient]

DeleteIngredient(id) ==
    /\ LET r == DeleteMutate(ingredients, id)
       IN /\ ingredients' = r.ingredients
          /\ result' = [op |-> "delete_ingredient", id |-> id,
                        error |-> r.error, success |-> r.success]
    /\ UNCHANGED <<categories, nextIngredientId>>

Ingredients(where, first, offset, order) ==
    /\ LET r == resolve_ingredients(ingredients, where, first, offset, order)
       IN result' = [op |-> "ingredients", where |-> where, first |-> first,
                     offset |-> offset, order |-> order,
                     items |-> r.items, total_count |-> r.total_count]
    /\ UNCHANGED <<ingredients, categories, nextIngredientId>>

RootIngredients(where, first, offset) ==
    /\ LET r == root_resolve_ingredients(ingredients, where, first, offset)
       IN result' = [op |-> "root_ingredients", where |-> where, first |-> first,
                     offset |-> offset,
                     items |-> r.items, total_count |-> r.total_count]
    /\ UNCHANGED <<ingredients, categories, nextIngredientId>>

\* the response is delivered to the caller; the next request can be served
Respond ==
    /\ result # Idle
    /\ result' = Idle
    /\ UNCHANGED <<ingredients, categories, nextIngredientId>>

\* one request is served at a time, to completion
Next ==
    \/ result = Idle /\ \E input \in UpsertInputs : UpsertIngredient(input)
    \/ result = Idle /\ \E id \in 1..MaxId : DeleteIngredient(id)
    \/ result = Idle /\ \E where \in WhereInputs, first \in FirstInputs,
                           offset \in OffsetInputs, order \in OrderInputs :
                             Ingredients(where, first, offset, order)
    \/ result = Idle /\ \E where \in RootWhereInputs, first \in FirstInputs,
                           offset \in OffsetInputs :
                             RootIngredients(where, first, offset)
    \/ Respond

Spec == Init /\ [][Next]_vars

\* the mutations alone: the queries read the store and never change it, so the
\* stores reached are the same
NextMutations ==
    \/ result = Idle /\ \E input \in UpsertInputs : UpsertIngredient(input)
    \/ result = Idle /\ \E id \in 1..MaxId : DeleteIngredient(id)
    \/ Respond

SpecMutations == Init /\ [][NextMutations]_vars

\* the `ingredients` query of the ingredients module over stores whose rows
\* differ in what it filters and orders by (id and name)
SeedUpsertInputs ==
    [id : IdInputs, name : NameInputs, notes : {NoneStr},
     category_name : {NoneStr, <<"a">>}]

NextIngredients ==
    \/ result = Idle /\ \E input \in SeedUpsertInputs : UpsertIngredient(input)
    \/ result = Idle /\ \E id \in 1..MaxId : DeleteIngredient(id)
    \/ result = Idle /\ \E where \in WhereInputs, first \in FirstInputs,
                           offset \in OffsetInputs, order \in OrderInputs :
                             Ingredients(where, first, offset, order)
    \/ Respond

SpecIngredients == Init /\ [][NextIngredients]_vars

\* ---------------------------------------------------------------- helpers of the properties
RowOf(rows, id) == rows[CHOOSE i \in 1..Len(rows) : rows[i].id = id]
CategoryIds(cats) == {cats[i].id : i \in 1..Len(cats)}
CategoryNames(cats) == {cats[i].name : i \in 1..Len(cats)}
IsUpsert(r) == r.op = "upsert_ingredient"
IsDelete(r) == r.op = "delete_ingredient"

\* the rows a `where` of the ingredients module selects: every supplied
\* (non-null) field holds of the row
MatchesWhere(row, where) ==
    \A k \in DOMAIN where : where[k] = NoneOfKey(k) \/ Lookup(row, k, where[k])
\* the rows a `where` of the root module selects
MatchesRootWhere(row, where) ==
    \A k \in DOMAIN RootFilters(where) : Lookup(row, k, RootFilters(where)[k])
MatchCount(rows, Matches(_, _), where) ==
    Cardinality({i \in 1..Len(rows) : Matches(rows[i], where)})

RECURSIVE ConcatPages(_, _, _, _, _)
\* the pages at offsets n*k, (n+1)*k, ..., last*k of size k, one after the other
ConcatPages(rows, where, order, k, n) ==
    IF n * k > Len(rows) THEN <<>>
    ELSE resolve_ingredients(rows, where, k, n * k, order).items
         \o ConcatPages(rows, where, order, k, n + 1)

Sorted(qs, order) ==
    order = NoOrder \/
    \A i \in 1..(Len(qs) - 1) :
        IF order.direction = "DESC"
        THEN ~KeyLess(qs[i], qs[i + 1], order.field)
        ELSE ~KeyLess(qs[i + 1], qs[i], order.field)

\* ---------------------------------------------------------------- C1
\* C1: the total_count either resolve_ingredients returns is the number of
\* ingredients matching the filter, whatever first and offset are.
C1_TotalCountIsMatchCount ==
    /\ result.op = "ingredients" =>
          result.total_count = MatchCount(ingredients, MatchesWhere, result.where)
    /\ result.op = "root_ingredients" =>
          result.total_count = MatchCount(ingredients, MatchesRootWhere, result.where)

\* ---------------------------------------------------------------- C2
\* C2: an upsert whose id is supplied and is the id of no ingredient fails
\* with NotFound, whatever name, notes and category name it carries.
C2_UnknownIdIsNotFound ==
    (IsUpsert(result) /\ result.input.id # NoneInt
        /\ result.input.id \notin IdsOf(ingredients))
    => result.error = "NotFound"

\* ---------------------------------------------------------------- C3
NoTwoIngredientsShareName(rows) ==
    \A i, j \in 1..Len(rows) : rows[i].name = rows[j].name => i = j

\* an upsert that is a create with its required fields, or an update of an
\* existing id, and supplies a name held by a row of another id
Collides(rows, input) ==
    /\ input.name # NoneStr
    /\ \/ input.id = NoneInt /\ TruthyStr(input.name) /\ TruthyStr(input.category_name)
       \/ input.id \in IdsOf(rows)
    /\ \E i \in 1..Len(rows) : rows[i].name = input.name /\ rows[i].id # input.id

\* C3: an upsert (create, or update of an existing id) whose non-null name is
\* held by an ingredient of another id fails with DuplicateName, an update
\* re-supplying the row's own name is no collision, and so no two
\* ingredients ever hold the same name.
C3_NamesStayUnique ==
    [][ /\ (IsUpsert(result') /\ Collides(ingredients, result'.input))
             => result'.error = "DuplicateName"
        /\ (IsUpsert(result') /\ result'.input.id \in IdsOf(ingredients)
               /\ ~Collides(ingredients, result'.input))
             => result'.error = ""
        /\ NoTwoIngredientsShareName(ingredients') ]_vars

\* ---------------------------------------------------------------- C4
\* C4: an upsert without id whose name or category name is missing fails
\* with ValidationError and leaves ingredients and categories as they were.
C4_MissingFieldOnCreate ==
    [][ (IsUpsert(result') /\ result'.input.id = NoneInt
            /\ (~TruthyStr(result'.input.name)
                  \/ ~TruthyStr(result'.input.category_name)))
        => (/\ result'.error = "ValidationError"
            /\ ingredients' = ingredients
            /\ categories' = categories
            /\ nextIngredientId' = nextIngredientId) ]_vars

\* a create that names a category the store does not hold, without a name,
\* was rejected
C4_Witness ==
    /\ IsUpsert(result) /\ result.input.id = NoneInt
    /\ result.input.name = NoneStr
    /\ TruthyStr(result.input.category_name)
    /\ result.input.category_name \notin CategoryNames(categories)
    /\ result.error = "ValidationError"
    /\ Len(ingredients) > 0

\* ---------------------------------------------------------------- C5
\* C5: delete_ingredient of an id not in the store fails with NotFound and
\* changes nothing; of an id in the store it succeeds, removes that row and
\* no other, and leaves the other rows and the categories as they were.
C5_DeleteRemovesExactlyOne ==
    [][ IsDelete(result') =>
          /\ categories' = categories
          /\ IF result'.id \in IdsOf(ingredients)
             THEN /\ result'.error = "" /\ result'.success
                  /\ IdsOf(ingredients') = IdsOf(ingredients) \ {result'.id}
                  /\ Len(ingredients') = Len(ingredients) - 1
                  /\ \A i \in 1..Len(ingredients') :
                        ingredients'[i] = RowOf(ingredients, ingredients'[i].id)
             ELSE /\ result'.error = "NotFound"
                  /\ ingredients' = ingredients ]_vars

\* a row was deleted while another row stayed
C5_Witness ==
    /\ IsDelete(result) /\ result.error = "" /\ result.success
    /\ result.id \notin IdsOf(ingredients)
    /\ Len(ingredients) > 0

\* ---------------------------------------------------------------- C6
\* C6: for the store, filter and order of an `ingredients` query of page size
\* k >= 1, the pages at offsets 0, k, 2k, ... put one after the other are the
\* whole filtered and ordered sequence, every matching row once; a page
\* whose offset is at or past the end is empty.
C6_PagesConcatenate ==
    (result.op = "ingredients" /\ result.first # NoneInt /\ result.first >= 1) =>
        LET full == resolve_ingredients(ingredients, result.where, NoneInt, NoneInt,
                                        result.order).items
            pages == ConcatPages(ingredients, result.where, result.order,
                                 result.first, 0)
        IN /\ pages = full
           /\ IdsOf(pages) = {ingredients[i].id : i \in
                   {j \in 1..Len(ingredients) :
                       MatchesWhere(ingredients[j], result.where)}}
           /\ Cardinality(IdsOf(pages)) = Len(pages)
           /\ Sorted(pages, result.order)
           /\ (result.offset # NoneInt /\ result.offset >= Len(full))
                 => result.items = <<>>
           /\ (result.offset # NoneInt /\ result.offset < Len(full))
                 => result.items = SubSeq(pages, result.offset + 1,
                        IF result.offset + result.first < Len(full)
                        THEN result.offset + result.first ELSE Len(full))

\* the second page of size 1 of an ordered query over two matching rows
C6_Witness ==
    /\ result.op = "ingredients" /\ result.first = 1 /\ result.offset = 1
    /\ result.order # NoOrder /\ result.order.direction = "DESC"
    /\ result.total_count = 2
    /\ Len(result.items) = 1
    /\ result.items[1] = ingredients[1]

\* ---------------------------------------------------------------- C7
\* C7: a successful upsert with the id of an existing ingredient overwrites
\* each of name, notes and category exactly when the matching input (name,
\* notes, category_name) is non-null, with the supplied value; the other
\* fields, the id and all other ingredients stay as they were.
C7_PartialUpdate ==
    [][ (IsUpsert(result') /\ result'.error = ""
            /\ result'.input.id \in IdsOf(ingredients))
        => LET input == result'.input
               old == RowOf(ingredients, input.id)
               new == RowOf(ingredients', input.id)
           IN /\ IdsOf(ingredients') = IdsOf(ingredients)
              /\ Len(ingredients') = Len(ingredients)
              /\ \A i \in 1..Len(ingredients) :
                    ingredients[i].id # input.id => ingredients'[i] = ingredients[i]
              /\ new.id = old.id
              /\ new.name = IF input.name # NoneStr THEN input.name ELSE old.name
              /\ new.notes = IF input.notes # NoneStr THEN input.notes ELSE old.notes
              /\ IF input.category_name # NoneStr
                 THEN \E i \in 1..Len(categories') :
                        /\ categories'[i].id = new.category
                        /\ categories'[i].name = input.category_name
                 ELSE new.category = old.category ]_vars

\* ---------------------------------------------------------------- C8
\* C8: every ingredient references a category that is in the store.
C8_CategoryReferenceValid ==
    \A i \in 1..Len(ingredients) :
        /\ ingredients[i].category # NoneInt
        /\ ingredients[i].category \in CategoryIds(categories)

\* an existing ingredient was updated to a category created by that call
C8_Witness ==
    /\ IsUpsert(result) /\ result.error = ""
    /\ result.input.id # NoneInt
    /\ TruthyStr(result.input.category_name)
    /\ Len(categories) = 2
    /\ categories[2].name = result.input.category_name
    /\ RowOf(ingredients, result.input.id).category = 2
    /\ \A i \in 1..Len(ingredients) : ingredients[i].category = 2

\* ---------------------------------------------------------------- C9
\* C9: a mutation that ends in an error leaves the ingredients and the
\* categories exactly as they were before the call.
C9_FailedMutationChangesNothing ==
    [][ ((IsUpsert(result') \/ IsDelete(result')) /\ result'.error # "")
        => (ingredients' = ingredients /\ categories' = categories) ]_vars

\* ---------------------------------------------------------------- C10
NoTwoCategoriesShareName(cats) ==
    \A i, j \in 1..Len(cats) : cats[i].name = cats[j].name => i = j

IsPrefix(s, t) == Len(s) <= Len(t) /\ SubSeq(t, 1, Len(s)) = s

\* C10 as stated: no two categories share a name, no category is ever
\* removed, an upsert naming a category of the store adds none and an upsert
\* naming a new category adds exactly one.
C10_CategoriesGetOrCreate ==
    [][ /\ NoTwoCategoriesShareName(categories')
        /\ IsPrefix(categories, categories')
        /\ (IsUpsert(result') /\ TruthyStr(result'.input.category_name))
             => IF result'.input.category_name \in CategoryNames(categories)
                THEN categories' = categories
                ELSE /\ Len(categories') = Len(categories) + 1
                     /\ categories'[Len(categories')].name
                           = result'.input.category_name ]_vars

\* C10 amended: no two categories share a name, no category is ever removed,
\* an upsert naming a category of the store adds none, and an upsert that
\* passes the required-field validation with a non-empty category name new
\* to the store adds exactly one, of that name; every other call adds none.
C10_CategoriesGetOrCreateValidated ==
    [][ /\ NoTwoCategoriesShareName(categories')
        /\ IsPrefix(categories, categories')
        /\ IF /\ IsUpsert(result')
              /\ TruthyStr(result'.input.category_name)
              /\ result'.error # "ValidationError"
              /\ result'.input.category_name \notin CategoryNames(categories)
           THEN /\ Len(categories') = Len(categories) + 1
                /\ categories'[Len(categories')].name = result'.input.category_name
           ELSE categories' = categories ]_vars

\* an upsert naming the category the store holds reused it, after an upsert
\* that named a second one
C10_Witness ==
    /\ IsUpsert(result) /\ result.error = ""
    /\ Len(categories) = 2
    /\ result.input.category_name = categories[1].name
    /\ RowOf(ingredients, result.ingredient).category = 1

====
